---- MODULE Spec2Model ----
(***************************************************************************)
(* OutlierDBScraper (src/scraper.py): the scroll / snapshot / extract loop *)
(* of scrape_items, the extractor parse_item it calls on every visible     *)
(* sequence card, and the bounded hydration wait wait_for_videos_to_load.  *)
(* The browser (selenium driver) is the environment: every value read from *)
(* it is chosen nondeterministically from a small set, and every driver    *)
(* call that can raise may raise.                                          *)
(***************************************************************************)
EXTENDS Integers, Sequences, FiniteSets, TLC

\* ------------------------------------------------------------------ bounds
\* logical indices the page exposes are 0..MaxIndex
MaxIndex == 1
\* a snapshot holds at most MaxVisible sequence cards
MaxVisible == 2
\* scrollTop readings are 0, 800, ..., MaxScrollSteps * 800
MaxScrollSteps == 1
\* a card given to the extractor alone holds at most MaxSpans counter spans
MaxSpans == 2

\* ------------------------------------------------------- program constants
max_retries == 10
scroll_amount == 800
default_timeout == 10
settle_timeout == 5

\* Python's None
None == "None"
\* soup.find(...) found no such element
NoElement == "NoElement"

\* --------------------------------------------------------------- fragments
\* values of the data-index attribute; "x" is not an integer literal
IndexAttrs == {ToString(i) : i \in 0..MaxIndex} \cup {"x"}

\* int(s) succeeds
IsIntLiteral(s) == \E i \in 0..MaxIndex : ToString(i) = s

\* int(s) for an integer literal
IntOf(s) == CHOOSE i \in 0..MaxIndex : ToString(i) = s

\* src of an iframe: a player embed, a youtube page that is no embed, another site
EmbedSrc == "https://www.youtube-nocookie.com/embed/A?rel=0"
WatchSrc == "https://www.youtube.com/watch"
OtherSrc == "https://player.example.com/embed/E"
\* src of the thumbnail image: the youtube pattern, or another image
ThumbSrc == "https://img.youtube.com/vi/B/hqdefault.jpg"
BlankSrc == "https://cdn.example.com/blank.png"

\* 'youtube' in src
HasYoutube(src) == src \in {EmbedSrc, WatchSrc, ThumbSrc}

\* re.search(r'embed/([^?]+)', url).group(1), None without a match
extract_youtube_id(url) ==
    IF url = "" \/ url = None THEN None
    ELSE IF url = EmbedSrc THEN "A"
    ELSE IF url = OtherSrc THEN "E"
    ELSE None

\* re.search(r'youtube\.com/vi/([^/]+)/', src).group(1), None without a match
ThumbId(src) == IF src = ThumbSrc THEN "B" ELSE None

\* the d attribute of the svg path beside a counter span: the four icons the
\* extractor knows (each holds the fingerprint tested at lines 324-330) and one
\* it does not
HeartPath == "M458.4 64.3C400.6 15.7 311.3 23 256 79.3z"
CommentPath == "M256 32C114.6 32 0 125.1 0 240z"
SharePath == "M237.66,106.35l-80-80A8,8,0,0,0,144,32z"
SavePath == "M18 2H6c-1.103 0-2 .897-2 2v18l8-4.572z"
UnknownPath == "M12 2L2 7l10 5 10-5-10-5z"

\* the counters of a record
CounterNames == {"likes", "comments", "shares", "saves"}

\* a slip: a final else that takes any other icon for the likes icon
CounterOf_Default(path_d) ==
    IF path_d = CommentPath THEN "comments"
    ELSE IF path_d = SharePath THEN "shares"
    ELSE IF path_d = SavePath THEN "saves"
    ELSE "likes"

\* lines 324-331: the counter whose fingerprint the path holds, None for none
CounterOf(path_d) ==
    IF path_d = HeartPath THEN "likes"
    ELSE IF path_d = CommentPath THEN "comments"
    ELSE IF path_d = SharePath THEN "shares"
    ELSE IF path_d = SavePath THEN "saves"
    ELSE None

\* the numbers a counter span shows
CountValues == {3, 12}

\* the text of a counter span: a number, or an abbreviation that is no integer
\* literal
CountTexts == { ToString(n) : n \in CountValues } \cup {"1.2K"}

\* line 318: int(span.text.strip()) succeeds
IsCount(text) == \E n \in CountValues : ToString(n) = text

\* line 318: int(span.text.strip()) for an integer literal
CountOf(text) == CHOOSE n \in CountValues : ToString(n) = text

\* a span of class ml-1: its text, and the path of the icon in the sibling
\* before it (NoElement: no sibling before it, or no path in it)
Spans ==
    { [text |-> t, path_d |-> d] :
        t \in CountTexts,
        d \in {HeartPath, CommentPath, SharePath, SavePath, UnknownPath, NoElement} }

\* lines 317-333 for one span: the counter it sets, None when int() raises
\* ValueError (line 332), when there is no icon path, or when the path holds no
\* known fingerprint
SpanCounter(span) ==
    IF ~IsCount(span.text) THEN None
    ELSE IF span.path_d = NoElement THEN None
    ELSE CounterOf(span.path_d)

\* lines 287-290
NoCounters == [c \in CounterNames |-> 0]

\* lines 315-333: the loop over the spans, a later span overwriting an earlier
RECURSIVE CountersAfter(_, _)
CountersAfter(spans, counters) ==
    IF spans = << >> THEN counters
    ELSE LET c == SpanCounter(Head(spans))
         IN CountersAfter(Tail(spans),
                          IF c = None THEN counters
                          ELSE [counters EXCEPT ![c] = CountOf(Head(spans).text)])

\* the markup of one card, as far as parse_item reads it: a placeholder, a
\* thumbnail, an embedded player
Markups ==
    { [iframe |-> NoElement, img |-> NoElement],
      [iframe |-> NoElement, img |-> ThumbSrc],
      [iframe |-> EmbedSrc,  img |-> NoElement] }

\* the cards a snapshot can hold: every index with every markup, and one card
\* whose data-index is no integer
Fragments ==
    { [data_index |-> ToString(i), iframe |-> m.iframe, img |-> m.img,
       spans |-> << >>] :
        i \in 0..MaxIndex, m \in Markups }
    \cup { [data_index |-> "x", iframe |-> NoElement, img |-> NoElement,
            spans |-> << >>] }

\* page_source parsed by find_all: the cards in document order
Snapshots == UNION { [1..n -> Fragments] : n \in 0..MaxVisible }

\* ---------------------------------------------------------------- extractor
\* lines 297-301: the iframe, when it is a youtube one
IframeInfo(item) ==
    IF item.iframe # NoElement /\ HasYoutube(item.iframe)
    THEN [video_url |-> item.iframe, video_id |-> extract_youtube_id(item.iframe)]
    ELSE [video_url |-> None, video_id |-> None]

\* a slip: the thumbnail asked first, the iframe only without it
MediaInfo_ThumbFirst(item) ==
    IF item.img # NoElement /\ ThumbId(item.img) # None
    THEN [video_url |-> "https://www.youtube-nocookie.com/embed/B",
          video_id |-> ThumbId(item.img)]
    ELSE IframeInfo(item)

\* lines 303-312: the thumbnail, when the iframe gave no id
MediaInfo(item) ==
    LET first == IframeInfo(item)
    IN IF first.video_id = None /\ item.img # NoElement /\ ThumbId(item.img) # None
       THEN [video_url |-> "https://www.youtube-nocookie.com/embed/B",
             video_id |-> ThumbId(item.img)]
       ELSE first

\* what parse_item returns in place of a record (Python's None, falsy at line 401)
NoItem ==
    [data_index |-> None, video_id |-> None, video_url |-> None,
     likes |-> 0, comments |-> 0, shares |-> 0, saves |-> 0]

\* lines 284-295 filled in by lines 297-333
VideoInfo(item) ==
    LET counters == CountersAfter(item.spans, NoCounters)
    IN [data_index |-> item.data_index,
        video_id |-> MediaInfo(item).video_id,
        video_url |-> MediaInfo(item).video_url,
        likes |-> counters["likes"],
        comments |-> counters["comments"],
        shares |-> counters["shares"],
        saves |-> counters["saves"]]

\* a slip: line 354 returns the record whatever its video id
parse_item_NoGate(item) == VideoInfo(item)

\* line 354: the record, or None when no video id was resolved
parse_item(item) ==
    IF VideoInfo(item).video_id # None THEN VideoInfo(item) ELSE NoItem

\* ------------------------------------------------------------------- state
VARIABLES
    pc,                 \* where scrape_items is
    items,              \* the list scrape_items returns
    processed_indices,
    highest_index_seen,
    no_new_items_count,
    found_new,
    visible_items,      \* the sorted cards of the scan just made
    elapsed,            \* seconds since start_time in wait_for_videos_to_load
    failure,            \* history: the call that failed in the last step
    watch,              \* which of the histories below the specification records
    seen_indices,       \* history: every index a snapshot has shown
    retried,            \* history: the indices of this scan shown before and unprocessed then
    stalled,            \* history: trailing scroll attempts without an offset increase (0..2)
    new_index,          \* history: this cycle's scan showed an index never shown before
    cycle_len,          \* history: Len(items) when this cycle began
    quiet_cycles,       \* history: trailing cycles with no new index and no offset increase
    quiet_added,        \* history: a record was stored during those cycles
    idle_cycles,        \* history: trailing cycles with no new record and no offset increase
    idle_added,         \* history: a record was stored during those cycles
    late,               \* history: per index, the record stored for it in a scan after
                        \* an earlier scan had shown it and left it unprocessed
    reshown,            \* history: the indices of late shown again with other markup
    cycle_steps,        \* history: the steps taken since the loop test, in order
    cycle_count,        \* history: no_new_items_count when this cycle began
    scroll_outcome      \* history: how the scroll attempt of this cycle ended

vars == << pc, items, processed_indices, highest_index_seen, no_new_items_count,
           found_new, visible_items, elapsed, failure, seen_indices, retried, watch,
           stalled,
           new_index, cycle_len, quiet_cycles, quiet_added, idle_cycles, idle_added,
           late, reshown, cycle_steps, cycle_count, scroll_outcome >>

\* the locals of scrape_items other than pc, and what a scan leaves behind
session == << items, processed_indices, highest_index_seen, no_new_items_count,
              found_new, visible_items, retried >>

\* the histories of whole cycles
cycles == << stalled, new_index, cycle_len, quiet_cycles, quiet_added, idle_cycles,
             idle_added >>

\* the histories of late hydration
hydration == << late, reshown >>

\* the histories of the steps of one cycle
steps == << cycle_steps, cycle_count, scroll_outcome >>

InitWatching(w) ==
    /\ pc = "LOADING"
    /\ items = << >>
    /\ processed_indices = {}
    /\ highest_index_seen = -1
    /\ no_new_items_count = 0
    /\ found_new = FALSE
    /\ visible_items = << >>
    /\ elapsed = 0
    /\ failure = "none"
    /\ seen_indices = {}
    /\ retried = {}
    /\ watch = w
    /\ stalled = 0
    /\ new_index = FALSE
    /\ cycle_len = 0
    /\ quiet_cycles = 0
    /\ quiet_added = FALSE
    /\ idle_cycles = 0
    /\ idle_added = FALSE
    /\ late = [i \in 0..MaxIndex |-> NoItem]
    /\ reshown = {}
    /\ cycle_steps = << >>
    /\ cycle_count = 0
    /\ scroll_outcome = "none"

\* lines 362-363, 374-376
Init == InitWatching("none")

\* the src an iframe of a card can have, NoElement for a card without iframe
IframeSrcs == {NoElement, EmbedSrc, WatchSrc, OtherSrc}

\* the src the thumbnail image of a card can have, NoElement for none
ImgSrcs == {NoElement, ThumbSrc, BlankSrc}

\* the lists of counter spans of a card
SpanLists == UNION { [1..n -> Spans] : n \in 0..MaxSpans }

\* the cards given to the extractor alone
ExtractCards ==
    { [data_index |-> "0", iframe |-> f, img |-> g, spans |-> sp] :
        f \in IframeSrcs, g \in ImgSrcs, sp \in SpanLists }

\* line 400 about to run on one card
InitExtract ==
    /\ pc = "PARSING"
    /\ visible_items \in { << card >> : card \in ExtractCards }
    /\ items = << >>
    /\ processed_indices = {}
    /\ highest_index_seen = -1
    /\ no_new_items_count = 0
    /\ found_new = FALSE
    /\ elapsed = 0
    /\ failure = "none"
    /\ seen_indices = {}
    /\ retried = {}
    /\ watch = "extract"
    /\ stalled = 0
    /\ new_index = FALSE
    /\ cycle_len = 0
    /\ quiet_cycles = 0
    /\ quiet_added = FALSE
    /\ idle_cycles = 0
    /\ idle_added = FALSE
    /\ late = [i \in 0..MaxIndex |-> NoItem]
    /\ reshown = {}
    /\ cycle_steps = << >>
    /\ cycle_count = 0
    /\ scroll_outcome = "none"

\* ------------------------------------------------------------------ helpers
Min(a, b) == IF a < b THEN a ELSE b

\* the key of line 386: int(x.get('data-index', '0'))
SortKey(item) == IntOf(item.data_index)

\* list.sort is stable: an item goes behind every item whose key is not larger
RECURSIVE InsertByKey(_, _)
InsertByKey(sorted, item) ==
    IF sorted = << >> THEN << item >>
    ELSE IF SortKey(Head(sorted)) <= SortKey(item)
         THEN << Head(sorted) >> \o InsertByKey(Tail(sorted), item)
         ELSE << item >> \o sorted

RECURSIVE SortByIndex(_)
SortByIndex(list) ==
    IF list = << >> THEN << >>
    ELSE InsertByKey(SortByIndex(SubSeq(list, 1, Len(list) - 1)), list[Len(list)])

\* the sort raises ValueError when a key is no integer literal
SortRaises(list) == \E k \in 1..Len(list) : ~IsIntLiteral(list[k].data_index)

\* a slip: line 396 without the test of line 395
HighestAfter_Last(index, highest) == index

\* a slip: lines 395-396 left out
HighestAfter_Never(index, highest) == highest

\* lines 395-396
HighestAfter(index, highest) == IF index > highest THEN index ELSE highest

\* a slip: line 398 left out
Stores_NoDedup(index, processed, item) == parse_item(item) # NoItem

\* a slip: a processed index is stored again once its card has a player
Stores_Refresh(index, processed, item) ==
    parse_item(item) # NoItem /\ (index \notin processed \/ item.iframe # NoElement)

\* lines 398-401: the card is parsed and its record is stored
Stores(index, processed, item) == index \notin processed /\ parse_item(item) # NoItem

\* a slip: every index up to this one marked as processed
ProcessedAfter_UpTo(index, processed) == processed \cup (0..index)

\* a slip: line 403 left out
ProcessedAfter_Forgets(index, processed) == processed

\* line 403
ProcessedAfter(index, processed) == processed \cup {index}

\* a slip: lines 395-396 moved into the branch of line 401, so that only a
\* stored index is counted
RECURSIVE ProcessVisible_HighestWhenStored(_, _, _, _, _)
ProcessVisible_HighestWhenStored(cards, its, processed, highest, fnew) ==
    IF cards = << >>
    THEN [items |-> its, processed_indices |-> processed,
          highest_index_seen |-> highest, found_new |-> fnew]
    ELSE LET item == Head(cards)
             index == IntOf(item.data_index)
         IN IF Stores(index, processed, item)
            THEN ProcessVisible_HighestWhenStored(
                     Tail(cards), Append(its, parse_item(item)),
                     ProcessedAfter(index, processed),
                     HighestAfter(index, highest), TRUE)
            ELSE ProcessVisible_HighestWhenStored(
                     Tail(cards), its, processed, highest, fnew)

\* lines 392-409: the loop over the sorted cards
RECURSIVE ProcessVisible(_, _, _, _, _)
ProcessVisible(cards, its, processed, highest, fnew) ==
    IF cards = << >>
    THEN [items |-> its, processed_indices |-> processed,
          highest_index_seen |-> highest, found_new |-> fnew]
    ELSE LET item == Head(cards)
             index == IntOf(item.data_index)
         IN IF Stores(index, processed, item)
            THEN ProcessVisible(Tail(cards), Append(its, parse_item(item)),
                                ProcessedAfter(index, processed),
                                HighestAfter(index, highest), TRUE)
            ELSE ProcessVisible(Tail(cards), its, processed,
                                HighestAfter(index, highest), fnew)

\* the logical indices a snapshot shows
IndicesOf(list) == { IntOf(list[k].data_index) : k \in 1..Len(list) }

\* a slip: <= written for < in line 378
LoopCondition_Late(count) == count <= max_retries

\* a slip: the loop ends one attempt early
LoopCondition_Early(count) == count < max_retries - 1

\* line 378: the loop goes on
LoopCondition(count) == count < max_retries

\* a slip: the branches of lines 411-414 swapped
ProgressCount_Swapped(count, fnew) == IF fnew THEN count + 1 ELSE 0

\* a slip: line 414 left out
ProgressCount_Forgets(count, fnew) == IF fnew THEN 0 ELSE count

\* lines 411-415
ProgressCount(count, fnew) == IF fnew THEN 0 ELSE count + 1

\* a slip: "and not found_new" left out of line 472
ScrollStuck_IgnoresNew(current_scroll, new_actual_scroll, fnew) ==
    new_actual_scroll <= current_scroll

\* lines 472-474: the scroll did not move and the scan found nothing new
ScrollStuck(current_scroll, new_actual_scroll, fnew) ==
    new_actual_scroll <= current_scroll /\ ~fnew

\* what scrollTop can read
ScrollOffsets == { k * scroll_amount : k \in 0..MaxScrollSteps }

\* the timeout of the wait that is running: line 264 (the default of line 154),
\* line 487
Timeout == IF pc = "LOAD_WAIT" THEN default_timeout ELSE settle_timeout

\* the cards of a snapshot with logical index i that parse_item gives a record for
CompleteAt(snap, i) ==
    { k \in 1..Len(snap) : IntOf(snap[k].data_index) = i /\ parse_item(snap[k]) # NoItem }

\* what the extractor gives for index i in this snapshot: the record of the first
\* such card in document order
FirstComplete(snap, i) ==
    parse_item(snap[CHOOSE k \in CompleteAt(snap, i) : \A j \in CompleteAt(snap, i) : k <= j])

\* the history of late hydration after the scan of snap
HydrationHistory(snap) ==
    IF watch = "late"
    THEN /\ late' = [i \in 0..MaxIndex |->
                      IF /\ i \in IndicesOf(snap) \cap (seen_indices \ processed_indices)
                         /\ CompleteAt(snap, i) # {}
                      THEN FirstComplete(snap, i) ELSE late[i]]
         /\ reshown' = reshown \cup
              { i \in { j \in IndicesOf(snap) \cap processed_indices : late[j] # NoItem } :
                  \E k \in 1..Len(snap) :
                    /\ IntOf(snap[k].data_index) = i
                    /\ parse_item(snap[k]) \notin { items[j] : j \in 1..Len(items) } }
    ELSE UNCHANGED hydration

\* the history of the steps of this cycle after one more step
StepHistory(step, outcome) ==
    IF watch = "steps"
    THEN /\ cycle_steps' = Append(cycle_steps, step)
         /\ scroll_outcome' = outcome
         /\ UNCHANGED cycle_count
    ELSE UNCHANGED steps

\* ------------------------------------------------------------------ actions
\* a slip: get_page without the try of line 249
LoadPage_Raises ==
    /\ pc = "LOADING"
    /\ \E ok \in BOOLEAN :
         IF ok THEN pc' = "LOAD_WAIT" /\ failure' = "none"
               ELSE pc' = "ABORTED" /\ failure' = "load"
    /\ elapsed' = 0
    /\ UNCHANGED << session, seen_indices, watch, cycles, hydration, steps >>

\* lines 369-371 with get_page lines 249-260: driver.get and the wait for a card;
\* get_page catches every exception and returns None
LoadPage ==
    /\ pc = "LOADING"
    /\ \E ok \in BOOLEAN :
         IF ok THEN pc' = "LOAD_WAIT" /\ failure' = "none"
               ELSE pc' = "DONE" /\ failure' = "load"
    /\ elapsed' = 0
    /\ UNCHANGED << session, seen_indices, watch, cycles, hydration, steps >>

\* what follows wait_for_videos_to_load: get_page lines 267-276 (save_html and
\* page_source, any exception caught, None returned) or scrape_items lines 490-491
\* (save_html, nothing caught)
AfterWait(raised) ==
    /\ elapsed' = 0
    /\ IF pc = "LOAD_WAIT"
       THEN /\ pc' = IF raised THEN "DONE" ELSE "TEST"
            /\ failure' = IF raised THEN "load" ELSE "none"
       ELSE IF Len(items) % 10 = 0 /\ Len(items) > 0 /\ raised
            THEN pc' = "ABORTED" /\ failure' = "save_html"
            ELSE pc' = "TEST" /\ failure' = "none"
    /\ IF pc = "SETTLING" THEN StepHistory("settle", scroll_outcome) ELSE UNCHANGED steps

\* lines 160, 166-167: find_elements raises; get_page catches it, scrape_items
\* does not
WaitRaises ==
    /\ pc \in {"LOAD_WAIT", "SETTLING"}
    /\ elapsed < Timeout
    /\ pc' = IF pc = "LOAD_WAIT" THEN "DONE" ELSE "ABORTED"
    /\ failure' = IF pc = "LOAD_WAIT" THEN "load" ELSE "settle"
    /\ elapsed' = 0
    /\ UNCHANGED << session, seen_indices, watch, cycles, hydration, steps >>

\* lines 158-163, 176-184: no card yet, or the thumbnails clicked; time.sleep(1)
\* lets at least one second pass
WaitSleep ==
    /\ pc \in {"LOAD_WAIT", "SETTLING"}
    /\ elapsed < Timeout
    /\ \E d \in 1..(Timeout - elapsed) : elapsed' = elapsed + d
    /\ UNCHANGED << pc, failure, session, seen_indices, watch, cycles, hydration, steps >>

\* lines 172-174: more iframes than thumbnails, return True
WaitLoaded ==
    /\ pc \in {"LOAD_WAIT", "SETTLING"}
    /\ elapsed < Timeout
    /\ \E raised \in BOOLEAN : AfterWait(raised)
    /\ UNCHANGED << session, seen_indices, watch, cycles, hydration >>

\* a slip: the False of line 187 taken as a failure of the run
WaitTimeout_Fatal ==
    /\ pc \in {"LOAD_WAIT", "SETTLING"}
    /\ elapsed >= Timeout
    /\ pc' = IF pc = "LOAD_WAIT" THEN "DONE" ELSE "ABORTED"
    /\ failure' = IF pc = "LOAD_WAIT" THEN "load" ELSE "settle"
    /\ elapsed' = 0
    /\ UNCHANGED << session, seen_indices, watch, cycles, hydration, steps >>

\* lines 158, 186-187: the timeout has passed, return False
WaitTimeout ==
    /\ pc \in {"LOAD_WAIT", "SETTLING"}
    /\ elapsed >= Timeout
    /\ \E raised \in BOOLEAN : AfterWait(raised)
    /\ UNCHANGED << session, seen_indices, watch, cycles, hydration >>

\* line 378, and line 495 when the loop ends
LoopTest ==
    /\ pc = "TEST"
    /\ pc' = IF LoopCondition(no_new_items_count) THEN "SCANNING" ELSE "DONE"
    /\ failure' = "none"
    /\ cycle_len' = IF watch \in {"cycles", "steps"} THEN Len(items) ELSE cycle_len
    /\ IF watch = "steps" /\ LoopCondition(no_new_items_count)
       THEN /\ cycle_steps' = << >>
            /\ cycle_count' = no_new_items_count
            /\ scroll_outcome' = "none"
       ELSE UNCHANGED steps
    /\ UNCHANGED << session, elapsed, seen_indices, watch, stalled, new_index,
                    quiet_cycles, quiet_added, idle_cycles, idle_added, hydration >>

\* line 382: driver.page_source raises; nothing in scrape_items or main catches it
SnapshotFails ==
    /\ pc = "SCANNING"
    /\ pc' = "ABORTED"
    /\ failure' = "snapshot"
    /\ UNCHANGED << session, elapsed, seen_indices, watch, cycles, hydration, steps >>

\* line 386: a data-index that is no integer; the ValueError leaves the sort,
\* outside the try of line 393
SortFails ==
    /\ pc = "SCANNING"
    /\ \E snap \in Snapshots : SortRaises(snap)
    /\ pc' = "ABORTED"
    /\ failure' = "sort"
    /\ UNCHANGED << session, elapsed, seen_indices, watch, cycles, hydration, steps >>

\* lines 382-409: snapshot, sort, and the loop over the cards
Scan ==
    /\ pc = "SCANNING"
    /\ \E snap \in Snapshots :
         /\ ~SortRaises(snap)
         /\ \E cards \in {SortByIndex(snap)} :
            \E r \in {ProcessVisible(cards, items, processed_indices,
                                    highest_index_seen, FALSE)} :
               /\ visible_items' = IF watch = "scan" THEN cards ELSE << >>
               /\ items' = r.items
               /\ processed_indices' = r.processed_indices
               /\ highest_index_seen' = r.highest_index_seen
               /\ found_new' = r.found_new
               /\ seen_indices' = IF watch \in {"none", "steps"} THEN seen_indices
                                  ELSE seen_indices \cup IndicesOf(snap)
               /\ retried' = IF watch = "scan"
                             THEN IndicesOf(snap) \cap (seen_indices \ processed_indices)
                             ELSE {}
               /\ new_index' = IF watch = "cycles"
                               THEN ~(IndicesOf(snap) \subseteq seen_indices)
                               ELSE new_index
               /\ HydrationHistory(snap)
    /\ StepHistory("scan", scroll_outcome)
    /\ pc' = "PROGRESS"
    /\ failure' = "none"
    /\ UNCHANGED << no_new_items_count, elapsed, watch, stalled, cycle_len,
                    quiet_cycles, quiet_added, idle_cycles, idle_added >>

\* lines 411-415; visible_items is not read again before line 383 rebinds it
ProgressCheck ==
    /\ pc = "PROGRESS"
    /\ no_new_items_count' = ProgressCount(no_new_items_count, found_new)
    /\ visible_items' = << >>
    /\ retried' = {}
    /\ pc' = "SCROLLING"
    /\ failure' = "none"
    /\ StepHistory("progress", scroll_outcome)
    /\ UNCHANGED << items, processed_indices, highest_index_seen, found_new,
                    elapsed, seen_indices, watch, cycles, hydration >>

\* the history of the cycle whose scroll attempt has just ended
CycleHistory(advanced) ==
    IF watch = "cycles"
    THEN LET added == Len(items) > cycle_len
             quiet == ~new_index /\ ~advanced
             idle == ~added /\ ~advanced
         IN /\ stalled' = IF advanced THEN 0 ELSE Min(stalled + 1, 2)
            /\ quiet_cycles' = IF quiet THEN Min(quiet_cycles + 1, max_retries + 1) ELSE 0
            /\ quiet_added' = (quiet /\ (quiet_added \/ added))
            /\ idle_cycles' = IF idle THEN Min(idle_cycles + 1, max_retries + 1) ELSE 0
            /\ idle_added' = (idle /\ (idle_added \/ added))
            /\ new_index' = FALSE
            /\ UNCHANGED cycle_len
    ELSE UNCHANGED cycles

\* lines 426-433, 475-477: no selector matched a container
ScrollNoContainer ==
    /\ pc = "SCROLLING"
    /\ no_new_items_count' = no_new_items_count + 1
    /\ failure' = "none"
    /\ CycleHistory(FALSE)
    /\ StepHistory("scroll", "no_container")

\* a slip: line 481 left out, the exception only printed
ScrollRaises_Silent ==
    /\ pc = "SCROLLING"
    /\ UNCHANGED no_new_items_count
    /\ failure' = "scroll"
    /\ CycleHistory(FALSE)
    /\ StepHistory("scroll", "raised")

\* lines 437-469, 479-481: an execute_script call (the height, a scrollTop
\* reading, scrollTo) raised
ScrollRaises ==
    /\ pc = "SCROLLING"
    /\ no_new_items_count' = no_new_items_count + 1
    /\ failure' = "scroll"
    /\ CycleHistory(FALSE)
    /\ StepHistory("scroll", "raised")

\* lines 446-474: scrollTop read before and after scrollTo
ScrollContainer ==
    /\ pc = "SCROLLING"
    /\ \E current_scroll \in ScrollOffsets, new_actual_scroll \in ScrollOffsets :
         /\ no_new_items_count' =
              IF ScrollStuck(current_scroll, new_actual_scroll, found_new)
              THEN no_new_items_count + 1 ELSE no_new_items_count
         /\ CycleHistory(new_actual_scroll > current_scroll)
         /\ StepHistory("scroll", IF new_actual_scroll > current_scroll
                                  THEN "advanced" ELSE "stuck")
    /\ failure' = "none"

\* a slip: a continue after the scroll attempt, which skips the wait
Scroll_Rescans ==
    /\ (ScrollNoContainer \/ ScrollRaises \/ ScrollContainer)
    /\ pc' = "SCANNING"
    /\ elapsed' = 0
    /\ found_new' = FALSE
    /\ UNCHANGED << items, processed_indices, highest_index_seen, visible_items,
                    retried, seen_indices, watch, hydration >>

\* lines 418-481, then line 484 (handle_subscription_popup catches everything
\* and changes nothing) and line 487 (the wait starts); found_new is not read
\* again before line 391 rebinds it
Scroll ==
    /\ (ScrollNoContainer \/ ScrollRaises \/ ScrollContainer)
    /\ pc' = "SETTLING"
    /\ elapsed' = 0
    /\ found_new' = FALSE
    /\ UNCHANGED << items, processed_indices, highest_index_seen, visible_items,
                    retried, seen_indices, watch, hydration >>

\* lines 400-402 on one card: parse_item, and its record kept if it gave one
ParseItem ==
    /\ pc = "PARSING"
    /\ pc' = "PARSED"
    /\ items' = IF parse_item(visible_items[1]) # NoItem
                THEN << parse_item(visible_items[1]) >> ELSE << >>
    /\ UNCHANGED << processed_indices, highest_index_seen, no_new_items_count,
                    found_new, visible_items, elapsed, failure, seen_indices,
                    retried, watch, cycles, hydration, steps >>

Next ==
    \/ LoadPage
    \/ WaitRaises
    \/ WaitSleep
    \/ WaitLoaded
    \/ WaitTimeout
    \/ LoopTest
    \/ SnapshotFails
    \/ SortFails
    \/ Scan
    \/ ProgressCheck
    \/ Scroll

\* scrape_items as the program runs it
Spec == Init /\ [][Next]_vars

\* the single thread of main keeps running until scrape_items returns or raises
SpecLive == Spec /\ WF_vars(Next)

\* scrape_items with the histories of whole cycles recorded
SpecCycles == InitWatching("cycles") /\ [][Next]_vars

\* scrape_items with the cards of each scan kept until the progress check
SpecScan == InitWatching("scan") /\ [][Next]_vars

\* scrape_items with the histories of late hydration recorded
SpecLate == InitWatching("late") /\ [][Next]_vars

\* scrape_items with the steps of the current cycle recorded
SpecSteps == InitWatching("steps") /\ [][Next]_vars

\* parse_item on every card of ExtractCards
SpecExtract == InitExtract /\ [][ParseItem]_vars

TypeOK ==
    /\ pc \in {"LOADING", "LOAD_WAIT", "TEST", "SCANNING", "PROGRESS", "SCROLLING",
               "SETTLING", "DONE", "ABORTED", "PARSING", "PARSED"}
    /\ no_new_items_count \in 0..(max_retries + 1)
    /\ highest_index_seen \in -1..MaxIndex
    /\ processed_indices \subseteq 0..MaxIndex
    /\ elapsed \in 0..default_timeout

\* ------------------------------------------------------------- properties
\* the logical index of a stored record
IndexOf(record) == IntOf(record.data_index)

Max(S) == CHOOSE m \in S : \A x \in S : x <= m

IsPrefix(a, b) == Len(a) <= Len(b) /\ SubSeq(b, 1, Len(a)) = a

\* scrape_items has returned (line 371 or line 495)
Returned == pc = "DONE"

\* the loop of line 378 has ended and line 495 has returned
LoopExited == pc = "DONE" /\ failure # "load"

\* an exception has left scrape_items
Raised == pc = "ABORTED"

\* C1 as claimed: the loop ends only when no_new_items_count has reached
\* max_retries and the last two scroll attempts both produced no offset increase.
C1_ExitNeedsStalledScroll ==
    LoopExited => (no_new_items_count >= max_retries /\ stalled = 2)

\* C1 as amended: the loop ends only when no_new_items_count has reached
\* max_retries; the scroll offset is not part of the test.
C1_ExitAtThreshold == LoopExited => no_new_items_count >= max_retries

\* the loop has ended although the last scroll attempt advanced the offset
C1_ExitWhileAdvancing == LoopExited /\ stalled = 0

\* C2 as claimed: once the snapshots show no new logical index and the scroll
\* attempts no offset increase, at most max_retries further cycles run and no
\* record is stored in them.
C2_QuietIndexBound == quiet_cycles <= max_retries /\ ~quiet_added

\* C2 as amended: once the cycles store no new record and the scroll attempts
\* produce no offset increase, at most max_retries further cycles run, and the
\* records returned are those stored before.
C2_IdleBound == idle_cycles <= max_retries /\ ~idle_added

\* the run has returned both records after cycles that stored nothing and did
\* not scroll
C2_IdleReturn == LoopExited /\ idle_cycles >= 2 /\ Len(items) = 2

\* C3: every run ends: scrape_items returns, or an exception leaves it; no
\* loop of it goes on for ever.
C3_Terminates == <>(Returned \/ Raised)

\* the loop has ended although an index that was shown was never stored
C3_EndsWithIncomplete == LoopExited /\ highest_index_seen >= 0 /\ processed_indices = {}

\* C4 as claimed: the returned list is strictly ascending by logical index.
C4_ReturnedAscending ==
    Returned => \A i, j \in 1..Len(items) : i < j => IndexOf(items[i]) < IndexOf(items[j])

\* C5: no two records of items (so none of the returned list) have the same
\* logical index.
C5_NoDuplicateIndex ==
    \A i, j \in 1..Len(items) : i # j => IndexOf(items[i]) # IndexOf(items[j])

\* a scan has stored a record from a snapshot in which two cards with one index
\* both parse to a record
C5_TwoCardsOneIndex ==
    /\ pc = "PROGRESS"
    /\ found_new
    /\ \E i, j \in 1..Len(visible_items) :
         /\ i < j
         /\ SortKey(visible_items[i]) = SortKey(visible_items[j])
         /\ parse_item(visible_items[i]) # NoItem
         /\ parse_item(visible_items[j]) # NoItem

\* C6: every stored record has a video id; every processed index has a stored
\* record; and after a scan every card whose index is still unprocessed was
\* parsed in that scan and gave no record.
C6_CompletenessGate ==
    /\ \A k \in 1..Len(items) : items[k].video_id # None
    /\ processed_indices \subseteq { IndexOf(items[k]) : k \in 1..Len(items) }
    /\ pc = "PROGRESS" =>
         \A k \in 1..Len(visible_items) :
           SortKey(visible_items[k]) \notin processed_indices
             => parse_item(visible_items[k]) = NoItem

\* a scan parsed again a card whose index an earlier scan had left unprocessed,
\* and left it unprocessed again, while another index is stored
C6_IncompleteRetried ==
    /\ pc = "PROGRESS"
    /\ items # << >>
    /\ \E i \in retried : i \notin processed_indices

\* C7: in every step items is extended at its end only, processed_indices only
\* gains members and highest_index_seen does not decrease.
C7_Monotonic ==
    [][ /\ IsPrefix(items, items')
        /\ processed_indices \subseteq processed_indices'
        /\ highest_index_seen' >= highest_index_seen ]_vars

\* both records are stored and the wait after a scroll is running
C7_GrownThenSettling == pc = "SETTLING" /\ Len(items) = 2 /\ elapsed > 0

\* C8: the index of every stored record is in processed_indices, and
\* highest_index_seen is at least every processed index.
C8_SessionInvariant ==
    /\ \A k \in 1..Len(items) : IndexOf(items[k]) \in processed_indices
    /\ \A i \in processed_indices : highest_index_seen >= i

\* an index is processed and a higher one was shown that is not
C8_HigherIndexPending ==
    /\ processed_indices # {}
    /\ highest_index_seen > Max(processed_indices)

\* what the loop of lines 392-409 would do with these cards now
Rescan(cards) ==
    ProcessVisible(cards, items, processed_indices, highest_index_seen, FALSE)

\* the loop stores nothing
StoresNothing(r) ==
    r.items = items /\ r.processed_indices = processed_indices /\ ~r.found_new

\* C9: after a scan, a second scan of the same cards stores nothing, and so does
\* the scan of a card whose index is processed, whatever its markup.
C9_ScanIdempotent ==
    pc = "PROGRESS" =>
      /\ StoresNothing(Rescan(visible_items))
      /\ \A card \in Fragments :
           (IsIntLiteral(card.data_index) /\ SortKey(card) \in processed_indices)
             => StoresNothing(Rescan(<< card >>))

\* a scan has stored records from a snapshot of two cards
C9_FirstPassStored == pc = "PROGRESS" /\ found_new /\ Len(visible_items) = 2

\* C10 as claimed: when a snapshot, scroll or geometry call fails, the run is
\* over and scrape_items has returned items.
C10_FailureReturnsItems ==
    failure \in {"snapshot", "scroll"} => Returned

\* C11 as claimed: a card that is malformed (a data-index that is no integer)
\* or not yet hydrated never makes an exception leave the scan: the run goes on
\* and the other cards of the snapshot are processed.
C11_MalformedContained == Raised => failure # "sort"

\* C12: an index that earlier scans showed and left unprocessed, and that a
\* later scan stores, has exactly one record in items from then on (so in the
\* returned list), and that record is the one extracted in the scan that stored
\* it, whatever markup later snapshots show for the index.
C12_LateHydration ==
    \A i \in 0..MaxIndex :
      late[i] # NoItem =>
        \E k \in 1..Len(items) :
          /\ items[k] = late[i]
          /\ \A j \in 1..Len(items) : IndexOf(items[j]) = i => j = k

\* the loop has ended with the record of an index that hydrated late and that a
\* later snapshot showed again with other markup
C12_LateThenReshown ==
    LoopExited /\ \E i \in reshown : late[i] # NoItem /\ late[i].video_id = "A"

\* this cycle has stored a record
CycleAdded == Len(items) > cycle_len

\* what the progress check alone leaves in no_new_items_count
AfterProgress == IF CycleAdded THEN 0 ELSE cycle_count + 1

\* C13 as claimed: over one full cycle no_new_items_count becomes 0 if the cycle
\* stored a record and otherwise exactly its value at the start of the cycle
\* plus 1.
C13_ResetOrPlusOne == pc = "SETTLING" => no_new_items_count = AfterProgress

\* C13 as amended: the progress check sets no_new_items_count to 0 if the scan
\* stored a record and otherwise to its value at the start of the cycle plus 1;
\* the scroll step of the same cycle adds 1 more when no container is found,
\* when a scroll command raises, or when the offset did not increase and the
\* scan stored nothing.
C13_ProgressThenScroll ==
    /\ pc = "SCROLLING" => no_new_items_count = AfterProgress
    /\ pc = "SETTLING" =>
         no_new_items_count = AfterProgress +
           (IF \/ scroll_outcome \in {"no_container", "raised"}
               \/ (scroll_outcome = "stuck" /\ ~CycleAdded)
            THEN 1 ELSE 0)

\* after a cycle that stored records and left the count at 0, a cycle that
\* stored nothing and did not move the offset has left the count at 2
C13_SecondCycleCountsTwice ==
    /\ pc = "SETTLING"
    /\ items # << >>
    /\ ~CycleAdded
    /\ cycle_count = 0
    /\ scroll_outcome = "stuck"
    /\ no_new_items_count = 2

\* C14: while the wait after a scroll runs, items, processed_indices,
\* highest_index_seen and no_new_items_count do not change; every poll that
\* stays in the wait lets time pass and starts before the timeout, so there are
\* at most settle_timeout polls; and once the timeout has passed the run goes on
\* to the loop test (only save_html of line 491 can still raise).
C14_SettleBounded ==
    [][ pc = "SETTLING" =>
          /\ UNCHANGED << items, processed_indices, highest_index_seen,
                          no_new_items_count >>
          /\ pc' = "SETTLING" =>
                (elapsed < settle_timeout /\ elapsed' > elapsed /\ elapsed' <= settle_timeout)
          /\ elapsed >= settle_timeout => (pc' = "TEST" \/ failure' = "save_html") ]_vars

\* the wait after a scroll has polled until its timeout, with a record stored
C14_SettleTimedOut ==
    pc = "SETTLING" /\ elapsed >= settle_timeout /\ items # << >>

\* the path that holds the fingerprint of a counter
KnownPath(c) ==
    IF c = "likes" THEN HeartPath
    ELSE IF c = "comments" THEN CommentPath
    ELSE IF c = "shares" THEN SharePath
    ELSE SavePath

\* the spans of a list that show an integer beside the icon of counter c
HitsOf(spans, c) ==
    { k \in 1..Len(spans) : IsCount(spans[k].text) /\ spans[k].path_d = KnownPath(c) }

\* the card parse_item was given
ParsedCard == visible_items[1]

\* C15: for a card with a resolvable media id parse_item gives a record, and
\* each counter of it is the integer of the last span beside that counter's
\* icon, or 0 without such a span: a span beside an unknown icon (or beside no
\* icon), and a span whose text is no integer, set no counter.
C15_UnknownIconsIgnored ==
    (pc = "PARSED" /\ (ParsedCard.iframe = EmbedSrc \/ ParsedCard.img = ThumbSrc)) =>
      /\ items # << >>
      /\ \A c \in CounterNames :
           items[1][c] = IF HitsOf(ParsedCard.spans, c) = {} THEN 0
                         ELSE CountOf(ParsedCard.spans[Max(HitsOf(ParsedCard.spans, c))].text)

\* a record was given for a card with an integer beside an unknown icon and
\* an abbreviated number beside the likes icon, and its likes are 0
C15_UnknownIconLikesZero ==
    /\ pc = "PARSED"
    /\ items # << >>
    /\ Len(ParsedCard.spans) = 2
    /\ ParsedCard.spans[1] = [text |-> "12", path_d |-> UnknownPath]
    /\ ParsedCard.spans[2] = [text |-> "1.2K", path_d |-> HeartPath]
    /\ items[1].likes = 0

\* C16: parse_item takes the id from the iframe when the iframe is a youtube
\* embed; it takes the id of the thumbnail when there is no iframe, or the
\* iframe is no youtube embed, and the thumbnail has the youtube pattern; and it
\* gives no record exactly when neither gives an id.
C16_MediaIdentity ==
    pc = "PARSED" =>
      /\ ParsedCard.iframe = EmbedSrc =>
            /\ items # << >>
            /\ items[1].video_id = "A"
            /\ items[1].video_url = EmbedSrc
      /\ (ParsedCard.iframe # EmbedSrc /\ ParsedCard.img = ThumbSrc) =>
            /\ items # << >>
            /\ items[1].video_id = "B"
            /\ items[1].video_url = "https://www.youtube-nocookie.com/embed/B"
      /\ (ParsedCard.iframe # EmbedSrc /\ ParsedCard.img # ThumbSrc) => items = << >>

\* a card with both a youtube embed and a youtube thumbnail gave the id of the
\* embed
C16_PlayerPreferred ==
    /\ pc = "PARSED"
    /\ ParsedCard.iframe = EmbedSrc
    /\ ParsedCard.img = ThumbSrc
    /\ items # << >>
    /\ items[1].video_id = "A"

\* C17: highest_index_seen is the largest logical index any snapshot has shown
\* so far, -1 when none was shown, whether or not the index was stored.
C17_HighestIsMaxSeen == highest_index_seen = Max(seen_indices \cup {-1})

\* after a scan the largest index shown is one that is not stored, while a
\* smaller one is
C17_HighestNotStored ==
    /\ pc = "PROGRESS"
    /\ processed_indices # {}
    /\ highest_index_seen \in seen_indices \ processed_indices

\* the steps of one cycle, in the order of lines 382-491
CycleOrder == << "scan", "progress", "scroll", "settle" >>

\* C18: the steps taken since the last loop test are always the beginning of
\* scan, progress check, scroll attempt, settle, each at most once; the loop
\* test runs only before the first cycle or after a whole cycle; a scan starts
\* only right after the loop test; the loop ends only after a whole cycle; and
\* a failed load returns with no step taken.
C18_CycleOrdering ==
    /\ IsPrefix(cycle_steps, CycleOrder)
    /\ pc = "TEST" => cycle_steps \in {<< >>, CycleOrder}
    /\ pc = "SCANNING" => cycle_steps = << >>
    /\ pc = "PROGRESS" => cycle_steps = << "scan" >>
    /\ pc = "SCROLLING" => cycle_steps = << "scan", "progress" >>
    /\ pc = "SETTLING" => cycle_steps = << "scan", "progress", "scroll" >>
    /\ LoopExited => cycle_steps = CycleOrder
    /\ (Returned /\ failure = "load") => cycle_steps = << >>

\* the loop has ended after a whole cycle, with a record stored
C18_ExitAfterWholeCycle ==
    LoopExited /\ cycle_steps = CycleOrder /\ items # << >>

\* C19: a scroll step that finds no container, or in which a scroll command
\* raises, leaves items, processed_indices and highest_index_seen as they are,
\* adds exactly 1 to no_new_items_count, and is followed by the wait.
C19_ScrollFailureContained ==
    [][ (pc = "SCROLLING" /\ scroll_outcome' \in {"no_container", "raised"}) =>
          /\ UNCHANGED << items, processed_indices, highest_index_seen >>
          /\ no_new_items_count' = no_new_items_count + 1
          /\ pc' = "SETTLING" ]_vars

\* the wait runs after a scroll command raised in a cycle that had stored a
\* record: the count, reset by the progress check, is 1
C19_RaisedAfterStore ==
    /\ pc = "SETTLING"
    /\ scroll_outcome = "raised"
    /\ CycleAdded
    /\ no_new_items_count = 1
    /\ elapsed > 0

\* C20: when get_page fails, scrape_items has returned: the list is empty, no
\* scan, progress check, scroll attempt or wait after a scroll was made, and no
\* exception has left it.
C20_LoadFailureReturnsEmpty ==
    failure = "load" =>
      /\ Returned
      /\ items = << >>
      /\ processed_indices = {}
      /\ highest_index_seen = -1
      /\ no_new_items_count = 0
      /\ cycle_steps = << >>

\* scrape_items has returned at line 371
C20_ReturnedAtLoad == Returned /\ ~LoopExited

\* C21 as claimed: no_new_items_count is between 0 and max_retries + 1, differs
\* from its value at the start of the cycle by at most 2, and is at least
\* max_retries when the loop has ended.
C21_ChangeAtMostTwo ==
    /\ no_new_items_count \in 0..(max_retries + 1)
    /\ no_new_items_count - cycle_count \in -2..2
    /\ LoopExited => no_new_items_count >= max_retries

\* C21 as amended: no_new_items_count is between 0 and max_retries + 1; within
\* a cycle it is never more than 2 above its value at the start of the cycle,
\* and it is below that value only after the reset of a cycle that stored a
\* record, when it is 0 or 1; and it is at least max_retries when the loop has
\* ended.
C21_StreakBounds ==
    /\ no_new_items_count \in 0..(max_retries + 1)
    /\ no_new_items_count <= cycle_count + 2
    /\ no_new_items_count < cycle_count => (CycleAdded /\ no_new_items_count \in {0, 1})
    /\ LoopExited => no_new_items_count >= max_retries

\* the loop has ended with the count at max_retries + 1, in a run in which a
\* cycle had reset it
C21_ExitAboveThreshold ==
    LoopExited /\ no_new_items_count = max_retries + 1 /\ items # << >>

\* the logical indices of the stored records
StoredIndices(list) == { IndexOf(list[k]) : k \in 1..Len(list) }

\* C22: items has as many records as processed_indices has members and the
\* indices of the records are the members of processed_indices; and in every
\* step the indices that join processed_indices are those of the records
\* appended in that step.
C22_OneToOne ==
    [][ /\ Len(items) = Cardinality(processed_indices)
        /\ StoredIndices(items) = processed_indices
        /\ Len(items') = Cardinality(processed_indices')
        /\ StoredIndices(items') = processed_indices'
        /\ processed_indices' \ processed_indices =
             { IndexOf(items'[k]) : k \in (Len(items) + 1)..Len(items') } ]_vars

\* a scan has stored a record and every index has one
C22_AllIndicesStored ==
    pc = "PROGRESS" /\ found_new /\ Cardinality(processed_indices) = MaxIndex + 1

====
